---- MODULE Spec2Model ----
(***************************************************************************)
(* Model of the dex db package: the client_identity repository            *)
(* (src/db/client.go) over a relational store with a primary key on id.   *)
(* Byte strings are sequences over 0..255; base64 text is a sequence of   *)
(* character codes: 0..63 the URL-safe alphabet, PadChar '=', BadChar a   *)
(* character outside the alphabet, NLChar a line break.                   *)
(***************************************************************************)
EXTENDS Integers, Sequences, FiniteSets, TLC

\* ------------------------------------------------------------------ bounds
NumProcs == 2
NumIds == 1
MaxBatch == 2
MaxCalls == 2
NumConnectors == 2
MaxConfigs == 2

\* ------------------------------------------------- constants of the program
maxSecretLength == 72
bcryptHashCost == 10

Procs == 1..NumProcs
ClientIDs == 1..NumIds

PadChar == 64
BadChar == 65
NLChar == 66

\* ------------------------------------------------------------------ errors
NoErr == "nil"
ErrStorage == "storage error"
ErrPgUnique == "pq: 23505 unique_violation"
ErrSqliteUnique == "sqlite3: constraint failed"
ErrAlreadyExists == "client ID already exists"
ErrorNotFound == "no client found"
ErrNoSecret == "client has no secret"
ErrCorruptInput == "illegal base64 data"
ErrBcrypt == "bcrypt: hashing failed"
ErrMarshal == "json: unsupported value"
ErrUnmarshal == "invalid json"
ErrUnknownType == "unrecognized connector config type"
ErrConnectorNotFound == "connector not found in repository"
ErrInsertFailed == "DB insert failed"
ErrSecretGenerator == "secret generator failed"

\* -------------------------------------------------------------- sequences
Take(s, n) == IF Len(s) <= n THEN s ELSE SubSeq(s, 1, n)

Rep(n, b) == [i \in 1..n |-> b]

\* ----------------------------------------------------------------- base64
\* base64.URLEncoding.EncodeToString: three bytes to four characters, the
\* last group padded with '='.
RECURSIVE EncodeToString(_)
EncodeToString(b) ==
    IF Len(b) = 0 THEN << >>
    ELSE IF Len(b) = 1 THEN
        << b[1] \div 4, (b[1] % 4) * 16, PadChar, PadChar >>
    ELSE IF Len(b) = 2 THEN
        << b[1] \div 4, (b[1] % 4) * 16 + (b[2] \div 16),
           (b[2] % 16) * 4, PadChar >>
    ELSE
        << b[1] \div 4, (b[1] % 4) * 16 + (b[2] \div 16),
           (b[2] % 16) * 4 + (b[3] \div 64), b[3] % 64 >>
        \o EncodeToString(SubSeq(b, 4, Len(b)))

\* The decoder ignores '\r' and '\n'.
StripNL(s) == SelectSeq(s, LAMBDA c : c # NLChar)

IsAlpha(c) == c \in 0..63

\* One group of four characters; the bits left over in a padded group are
\* dropped without being checked (the encoding is not Strict).
DecodeQuantum(q, last) ==
    IF ~(IsAlpha(q[1]) /\ IsAlpha(q[2])) THEN [err |-> ErrCorruptInput, bytes |-> << >>]
    ELSE IF IsAlpha(q[3]) /\ IsAlpha(q[4]) THEN
        [err |-> NoErr,
         bytes |-> << q[1] * 4 + (q[2] \div 16),
                      (q[2] % 16) * 16 + (q[3] \div 4),
                      (q[3] % 4) * 64 + q[4] >>]
    ELSE IF last /\ IsAlpha(q[3]) /\ q[4] = PadChar THEN
        [err |-> NoErr,
         bytes |-> << q[1] * 4 + (q[2] \div 16),
                      (q[2] % 16) * 16 + (q[3] \div 4) >>]
    ELSE IF last /\ q[3] = PadChar /\ q[4] = PadChar THEN
        [err |-> NoErr, bytes |-> << q[1] * 4 + (q[2] \div 16) >>]
    ELSE [err |-> ErrCorruptInput, bytes |-> << >>]

RECURSIVE DecodeQuanta(_)
DecodeQuanta(s) ==
    IF Len(s) = 0 THEN [err |-> NoErr, bytes |-> << >>]
    ELSE IF Len(s) < 4 THEN [err |-> ErrCorruptInput, bytes |-> << >>]
    ELSE LET head == DecodeQuantum(SubSeq(s, 1, 4), Len(s) = 4)
             rest == DecodeQuanta(SubSeq(s, 5, Len(s)))
         IN  IF head.err # NoErr THEN head
             ELSE IF rest.err # NoErr THEN rest
             ELSE [err |-> NoErr, bytes |-> head.bytes \o rest.bytes]

\* base64.URLEncoding.DecodeString
DecodeString(s) == DecodeQuanta(StripNL(s))

\* ----------------------------------------------------------------- bcrypt
\* Blowfish reads at most maxSecretLength bytes of the password: the rest is
\* silently ignored.
BlowfishKey(password) == Take(password, maxSecretLength)

\* bcrypt.GenerateFromPassword: fails only when the library cannot draw a
\* salt (fault), otherwise the hash of the key at the given cost.
GenerateFromPassword(password, cost, fault) ==
    IF fault THEN [err |-> ErrBcrypt, hash |-> << >>]
    ELSE [err |-> NoErr, hash |-> << cost, BlowfishKey(password) >>]

\* bcrypt.CompareHashAndPassword(hash, password) == nil
CompareHashAndPassword(hash, password) ==
    /\ Len(hash) = 2
    /\ hash[2] = BlowfishKey(password)

\* ------------------------------------------------------------ input values
\* Secrets a generator can return and a caller can present.
ShortSecret == << 1 >>
SecretA == Rep(maxSecretLength, 65)
LongSecret == SecretA \o << 1 >>

\* The generators a repository is built with: DefaultSecretGenerator and two
\* passed to NewClientRepoWithSecretGenerator.
SecretGenerators == {"default", "long"}

\* pcrypto.RandBytes(maxSecretLength): maxSecretLength bytes.
DefaultSecretGenerator == {SecretA}

GeneratorOutputs(gen) ==
    IF gen = "default" THEN DefaultSecretGenerator ELSE {LongSecret}

\* Text that is not base64: a character outside the alphabet; a group cut short.
BadText == << 0, BadChar, 0, 0 >>
CutText == << 0, 16 >>

PresentedSecrets ==
    { EncodeToString(ShortSecret), EncodeToString(SecretA),
      EncodeToString(LongSecret), BadText }

\* Secrets a caller puts in the clients it hands to the repository.
SuppliedSecrets ==
    { << >>, EncodeToString(ShortSecret), EncodeToString(LongSecret), CutText }

\* oidc.ClientMetadata documents, by their redirect URIs.
MetaA == << "http://a" >>
MetaB == << "http://a", "http://b" >>

\* The clients handed to New: without and with a secret of their own.
NewClients ==
    { [ID |-> id, Secret |-> << >>, Metadata |-> MetaA, Admin |-> FALSE] :
        id \in ClientIDs }
    \cup
    { [ID |-> id, Secret |-> EncodeToString(ShortSecret), Metadata |-> MetaB,
       Admin |-> TRUE] : id \in ClientIDs }

\* The clients handed to NewClientRepoFromClients.
BatchClients ==
    { [ID |-> id, Secret |-> s, Metadata |-> MetaA, Admin |-> FALSE] :
        id \in ClientIDs, s \in SuppliedSecrets }

\* Connector ids; they share no key with the clients.
ConnectorIDs == {100 + i : i \in 1..NumConnectors}

\* The connector types that have a constructor registered, and one that has
\* none.
ConnectorTypes == {"local"}
UnknownType == "ghost"

\* The configs handed to Set, by ConnectorID() and ConnectorType(), and the
\* slices of them: the order of a slice does not matter to Set, so the ids
\* come in ascending order, equal ones next to each other.
ConnectorConfigs ==
    { [ID |-> id, Type |-> t] :
        id \in ConnectorIDs, t \in ConnectorTypes \cup {UnknownType} }

ConfigLists ==
    { cfgs \in UNION { [1..n -> ConnectorConfigs] : n \in 0..MaxConfigs } :
        \A i \in 1..Len(cfgs) - 1 : cfgs[i].ID <= cfgs[i + 1].ID }

\* The backends, in the order their integrations initialise.
Drivers == << "postgres", "sqlite3" >>

\* ------------------------------------------------------------------ state
VARIABLES
    clients,                \* committed rows of client_identity
    txn,                    \* per caller: its open transaction's statements
    alreadyExistsCheckers,  \* the registered checkers, in order
    driver,                 \* the backend behind the DbMap; "" before it is opened
    secretGenerator,        \* the repository's generator; "" before it is built
    pc, call,               \* per caller: position and locals
    ret,                    \* the call that returned last: arguments and results
    ncalls,                 \* calls that may write, started so far
    created,                \* per id: the creations that reported success
    adminSet,               \* per id: the flag of the last committed SetDexAdmin
    connectors,             \* committed rows of connector_config
    lastSet                 \* the last committed Set: its rows, whether another
                            \* Set overlapped it, whether it dropped a row

\* What is fixed once the program has started.
wiring == << alreadyExistsCheckers, driver, secretGenerator >>

\* The connector_config table and what is remembered about it.
connStore == << connectors, lastSet >>

vars == << clients, txn, wiring, pc, call, ret, ncalls, created, adminSet,
           connStore >>

NoCall == [op |-> "none"]
NoTx == [open |-> FALSE, writes |-> << >>]
NoSet == [committed |-> FALSE, models |-> {}, raced |-> FALSE, replaced |-> FALSE]

\* ------------------------------------------------------------------- json
\* json.Marshal of the metadata document, and json.Unmarshal of the text.
Marshal(meta) == << "{" >> \o meta \o << "}" >>

Unmarshal(text) ==
    IF Len(text) >= 2 /\ text[1] = "{" /\ text[Len(text)] = "}"
    THEN [err |-> NoErr, doc |-> SubSeq(text, 2, Len(text) - 1)]
    ELSE [err |-> ErrUnmarshal, doc |-> << >>]

\* --------------------------------------------------------------- the store
\* The error the backend raises for a second row with the same primary key.
UniqueViolation == IF driver = "postgres" THEN ErrPgUnique ELSE ErrSqliteUnique

\* The checker a backend registers matches that backend's error only.
Checker(c, err) ==
    \/ c = "postgres" /\ err = ErrPgUnique
    \/ c = "sqlite3" /\ err = ErrSqliteUnique

Registered == { alreadyExistsCheckers[i] : i \in 1..Len(alreadyExistsCheckers) }

\* One statement of a transaction applied to a table: an insert adds the
\* row, a delete removes the rows it found, an update replaces the row with
\* the same primary key.
ApplyWrite(table, w) ==
    IF w.kind = "insert" THEN table \cup {w.row}
    ELSE IF w.kind = "delete" THEN table \ w.rows
    ELSE IF \E r \in table : r.ID = w.row.ID
         THEN {r \in table : r.ID # w.row.ID} \cup {w.row}
         ELSE table

RECURSIVE ApplyWrites(_, _)
ApplyWrites(table, ws) ==
    IF Len(ws) = 0 THEN table
    ELSE ApplyWrites(ApplyWrite(table, ws[1]), Tail(ws))

\* The primary keys a statement has written.
Keys(w) == IF w.kind = "delete" THEN {r.ID : r \in w.rows} ELSE {w.row.ID}

\* What the executor of caller p reads: the committed rows, and under an
\* open transaction its own statements on top of them.
View(p) == IF txn[p].open THEN ApplyWrites(clients, txn[p].writes) ELSE clients

\* A row written by another caller's open transaction is locked: a statement
\* on the same key waits until that transaction ends.
Locked(p, id) ==
    \E q \in Procs \ {p} :
        /\ txn[q].open
        /\ \E i \in 1..Len(txn[q].writes) : id \in Keys(txn[q].writes[i])

\* executor.Get(clientModel{}, id): the rows with that key; empty is nil.
Get(table, id) == {r \in table : r.ID = id}

\* Variant: the table is registered without its primary key.
InsertErr_nopkey(table, row) == NoErr

\* executor.Insert(row): the primary key (pkey id) must be new.
InsertErr(table, row) ==
    IF \E r \in table : r.ID = row.ID THEN UniqueViolation ELSE NoErr

NilModel == [ID |-> 0, Secret |-> << >>, Metadata |-> << >>, DexAdmin |-> FALSE]

\* ------------------------------------------------------------ client.go
newClientModel(cli, hashFault) ==
    LET dec == DecodeString(cli.Secret)
        gen == GenerateFromPassword(dec.bytes, bcryptHashCost, hashFault)
    IN  IF dec.err # NoErr THEN [err |-> dec.err, cim |-> NilModel]
        ELSE IF gen.err # NoErr THEN [err |-> gen.err, cim |-> NilModel]
        ELSE [err |-> NoErr,
              cim |-> [ID |-> cli.ID,
                       Secret |-> gen.hash,
                       Metadata |-> Marshal(cli.Metadata),
                       DexAdmin |-> cli.Admin]]

\* Variant: only the checker registered last is asked.
isAlreadyExistsErr_last(err) ==
    /\ Len(alreadyExistsCheckers) > 0
    /\ Checker(alreadyExistsCheckers[Len(alreadyExistsCheckers)], err)

\* Variant: only the checker registered first is asked.
isAlreadyExistsErr_first(err) ==
    /\ Len(alreadyExistsCheckers) > 0
    /\ Checker(alreadyExistsCheckers[1], err)

isAlreadyExistsErr(err) ==
    \E i \in 1..Len(alreadyExistsCheckers) : Checker(alreadyExistsCheckers[i], err)

\* The init functions of the backend integrations, in their order.
registerAlreadyExistsChecker(c) ==
    /\ driver = ""
    /\ Len(alreadyExistsCheckers) < Len(Drivers)
    /\ c = Drivers[Len(alreadyExistsCheckers) + 1]
    /\ alreadyExistsCheckers' = Append(alreadyExistsCheckers, c)
    /\ UNCHANGED << connStore, clients, txn, driver, secretGenerator, pc, call,
                    ret, ncalls, created, adminSet >>

\* db.NewConnection, called from main once every init function has run: the
\* DbMap of one of the backends.
NewConnection(d) ==
    /\ driver = ""
    /\ Len(alreadyExistsCheckers) = Len(Drivers)
    /\ d \in Registered
    /\ driver' = d
    /\ UNCHANGED << connStore, clients, txn, alreadyExistsCheckers,
                    secretGenerator, pc, call, ret, ncalls, created, adminSet >>

\* NewClientRepo and NewClientRepoWithSecretGenerator: the repository the
\* callers use, with the default generator or with the one handed in.
NewClientRepoWithSecretGenerator(secGen) ==
    /\ driver # ""
    /\ secretGenerator = ""
    /\ secretGenerator' = secGen
    /\ UNCHANGED << connStore, clients, txn, alreadyExistsCheckers, driver, pc,
                    call, ret, ncalls, created, adminSet >>

\* Idle callers are interchangeable: the first of them takes the next call.
CanRead(p) ==
    /\ ret = NoCall
    /\ secretGenerator # ""
    /\ pc[p] = "idle"
    /\ \A q \in Procs : q < p => pc[q] # "idle"

\* A caller in the middle of a function takes its next step; the result of
\* the call that returned last has been taken by then.
At(p, label) ==
    /\ ret = NoCall
    /\ pc[p] = label

CanCall(p) ==
    /\ CanRead(p)
    /\ ncalls < MaxCalls

\* Callers are interchangeable: the calls in progress are kept in the lowest
\* slots, in the order they started.  Without slot p, the later ones move down.
Without(f, p, idle) ==
    [q \in Procs |-> IF q < p THEN f[q]
                     ELSE IF q + 1 \in Procs THEN f[q + 1] ELSE idle]

\* Variant: the function returns and its transaction stays as it is.
Return_open(p, r) ==
    /\ pc' = Without(pc, p, "idle")
    /\ call' = Without(call, p, NoCall)
    /\ ret' = r
    /\ txn' = txn

\* The caller's function returns r; a deferred tx.Rollback() drops whatever
\* the transaction has not committed.
Return(p, r) ==
    /\ pc' = Without(pc, p, "idle")
    /\ call' = Without(call, p, NoCall)
    /\ ret' = r
    /\ txn' = Without(txn, p, NoTx)

Goto(p, label, locals) ==
    /\ pc' = [pc EXCEPT ![p] = label]
    /\ call' = [call EXCEPT ![p] = locals]
    /\ ret' = NoCall

\* The callers that are inside New for the same id.
InNew(p, id) ==
    {q \in Procs \ {p} : call[q].op = "New" /\ call[q].cli.ID = id}

\* clientRepo.New up to the insert: the generator's secret replaces whatever
\* secret the client carries.  raced notes that another New for the same id
\* was under way at some point of this call.
NewBegin(p) ==
    /\ CanCall(p)
    /\ \E cli \in NewClients, f \in {"none", "generator", "bcrypt"},
          secret \in GeneratorOutputs(secretGenerator) :
          LET cli2 == [cli EXCEPT !.Secret = EncodeToString(secret)]
              m == newClientModel(cli2, f = "bcrypt")
              others == InNew(p, cli.ID)
              args == [op |-> "New", cli |-> cli2, given |-> cli.Secret,
                       raced |-> others # {}]
          IN  /\ ncalls' = ncalls + 1
              /\ IF f = "generator"
                 THEN Return(p, [args EXCEPT !.cli = cli] @@
                                [err |-> ErrSecretGenerator, cc |-> {}, fault |-> TRUE,
                                 before |-> {}])
                 ELSE IF m.err # NoErr
                 THEN Return(p, args @@ [err |-> m.err, cc |-> {}, fault |-> TRUE,
                                         before |-> {}])
                 ELSE /\ pc' = [pc EXCEPT ![p] = "New_insert"]
                      /\ call' = [q \in Procs |->
                            IF q = p THEN args @@ [cim |-> m.cim]
                            ELSE IF q \in others THEN [call[q] EXCEPT !.raced = TRUE]
                            ELSE call[q]]
                      /\ ret' = NoCall
                      /\ UNCHANGED txn
    /\ UNCHANGED << connStore, clients, wiring, created, adminSet >>

\* clientRepo.New from the insert on (tx is nil: the statement commits itself).
\* before holds the rows of that id as the insert found them.
NewInsert(p) ==
    /\ At(p, "New_insert")
    /\ \E f \in {"none", "insert"} :
        LET c == call[p]
            err == IF f # "none" THEN ErrStorage ELSE InsertErr(clients, c.cim)
            res == c @@ [before |-> Get(clients, c.cim.ID), fault |-> f # "none"]
        IN  /\ f # "none" \/ ~Locked(p, c.cim.ID)
            /\ IF err # NoErr
               THEN /\ Return(p, res @@
                        [err |-> IF isAlreadyExistsErr(err) THEN ErrAlreadyExists ELSE err,
                         cc |-> {}])
                    /\ UNCHANGED << clients, created >>
               ELSE /\ clients' = clients \cup {c.cim}
                    /\ created' = [created EXCEPT ![c.cim.ID] =
                          Append(@, [via |-> "New", Secret |-> c.cli.Secret,
                                     given |-> c.given, row |-> c.cim,
                                     Metadata |-> c.cli.Metadata,
                                     Admin |-> c.cli.Admin])]
                    /\ Return(p, res @@
                        [err |-> NoErr,
                         cc |-> {[ID |-> c.cli.ID, Secret |-> c.cli.Secret]}])
    /\ UNCHANGED << connStore, wiring, ncalls, adminSet >>

\* Variant: the length of the decoded secret is not checked.
Authenticate_nolimit(m, err, secret) ==
    LET dec == DecodeString(secret)
        cim == CHOOSE r \in m : TRUE
    IN  IF m = {} \/ err # NoErr THEN [ok |-> FALSE, err |-> err, compared |-> FALSE]
        ELSE IF dec.err # NoErr THEN [ok |-> FALSE, err |-> NoErr, compared |-> FALSE]
        ELSE [ok |-> CompareHashAndPassword(cim.Secret, dec.bytes),
              err |-> NoErr, compared |-> TRUE]

\* Variant: the decoding error is returned to the caller.
Authenticate_surface(m, err, secret) ==
    LET dec == DecodeString(secret)
        cim == CHOOSE r \in m : TRUE
    IN  IF m = {} \/ err # NoErr THEN [ok |-> FALSE, err |-> err, compared |-> FALSE]
        ELSE IF dec.err # NoErr THEN [ok |-> FALSE, err |-> dec.err, compared |-> FALSE]
        ELSE IF Len(dec.bytes) > maxSecretLength
             THEN [ok |-> FALSE, err |-> NoErr, compared |-> FALSE]
        ELSE [ok |-> CompareHashAndPassword(cim.Secret, dec.bytes),
              err |-> NoErr, compared |-> TRUE]

\* Variant: the result of the comparison is read the wrong way round.
Authenticate_inverted(m, err, secret) ==
    LET dec == DecodeString(secret)
        cim == CHOOSE r \in m : TRUE
    IN  IF m = {} \/ err # NoErr THEN [ok |-> FALSE, err |-> err, compared |-> FALSE]
        ELSE IF dec.err # NoErr THEN [ok |-> FALSE, err |-> NoErr, compared |-> FALSE]
        ELSE IF Len(dec.bytes) > maxSecretLength
             THEN [ok |-> FALSE, err |-> NoErr, compared |-> FALSE]
        ELSE [ok |-> ~CompareHashAndPassword(cim.Secret, dec.bytes),
              err |-> NoErr, compared |-> TRUE]

\* clientRepo.Authenticate after the lookup returned (m, err): m is the set
\* of rows found, empty for nil.  compared tells whether the hash comparison
\* was reached.
Authenticate(m, err, secret) ==
    LET dec == DecodeString(secret)
        cim == CHOOSE r \in m : TRUE
    IN  IF m = {} \/ err # NoErr THEN [ok |-> FALSE, err |-> err, compared |-> FALSE]
        ELSE IF dec.err # NoErr THEN [ok |-> FALSE, err |-> NoErr, compared |-> FALSE]
        ELSE IF Len(dec.bytes) > maxSecretLength
             THEN [ok |-> FALSE, err |-> NoErr, compared |-> FALSE]
        ELSE [ok |-> CompareHashAndPassword(cim.Secret, dec.bytes),
              err |-> NoErr, compared |-> TRUE]

AuthenticateCall(p) ==
    /\ CanRead(p)
    /\ \E id \in ClientIDs, secret \in PresentedSecrets,
          f \in {"none", "get"} :
        LET m == IF f # "none" THEN {} ELSE Get(clients, id)
            err == IF f # "none" THEN ErrStorage ELSE NoErr
        IN  /\ f # "none" => secret = EncodeToString(SecretA)
            /\ Return(p, [op |-> "Authenticate", ID |-> id, Secret |-> secret,
                          m |-> m, fault |-> f # "none", known |-> created[id]]
                         @@ Authenticate(m, err, secret))
    /\ UNCHANGED << connStore, clients, wiring, ncalls, created, adminSet >>

\* clientRepo.IsDexAdmin after the lookup returned (m, err).
IsDexAdmin(m, err) ==
    IF m = {} \/ err # NoErr THEN [ok |-> FALSE, err |-> err]
    ELSE [ok |-> (CHOOSE r \in m : TRUE).DexAdmin, err |-> NoErr]

IsDexAdminCall(p) ==
    /\ CanRead(p)
    /\ \E id \in ClientIDs, f \in {"none", "get"} :
        LET m == IF f # "none" THEN {} ELSE Get(clients, id)
            err == IF f # "none" THEN ErrStorage ELSE NoErr
        IN  /\ Return(p, [op |-> "IsDexAdmin", ID |-> id, m |-> m,
                          fault |-> f # "none",
                          known |-> created[id], set |-> adminSet[id]]
                         @@ IsDexAdmin(m, err))
    /\ UNCHANGED << connStore, clients, wiring, ncalls, created, adminSet >>

\* Variant: the row is built anew from the id and the flag.
withDexAdmin_fresh(cim, isAdmin) ==
    [NilModel EXCEPT !.ID = cim.ID, !.DexAdmin = isAdmin]

\* Variant: the flag is not assigned.
withDexAdmin_unassigned(cim, isAdmin) == cim

\* cim.DexAdmin = isAdmin
withDexAdmin(cim, isAdmin) == [cim EXCEPT !.DexAdmin = isAdmin]

\* clientRepo.SetDexAdmin: r.begin()
SetDexAdminBegin(p) ==
    /\ CanCall(p)
    /\ \E id \in ClientIDs, isAdmin \in BOOLEAN, f \in {"none", "begin"} :
        LET args == [op |-> "SetDexAdmin", ID |-> id, isAdmin |-> isAdmin]
        IN  /\ IF f # "none"
               THEN Return(p, args @@ [err |-> ErrStorage, m |-> {}, fault |-> TRUE])
               ELSE /\ Goto(p, "Set_get", args)
                    /\ txn' = [txn EXCEPT ![p] = [open |-> TRUE, writes |-> << >>]]
    /\ ncalls' = ncalls + 1
    /\ UNCHANGED << connStore, clients, wiring, created, adminSet >>

\* clientRepo.SetDexAdmin: exec.Get and the return for a nil row or an error.
SetDexAdminGet(p) ==
    /\ At(p, "Set_get")
    /\ \E f \in {"none", "get"} :
        LET c == call[p]
            m == IF f # "none" THEN {} ELSE Get(View(p), c.ID)
            err == IF f # "none" THEN ErrStorage ELSE NoErr
        IN  /\ IF m = {} \/ err # NoErr
               THEN Return(p, c @@ [err |-> err, m |-> m, fault |-> f # "none",
                                    rows |-> clients])
               ELSE /\ Goto(p, "Set_update",
                            c @@ [m |-> m,
                                  cim |-> withDexAdmin(CHOOSE r \in m : TRUE,
                                                       c.isAdmin)])
                    /\ UNCHANGED txn
    /\ UNCHANGED << connStore, clients, wiring, ncalls, created, adminSet >>

\* clientRepo.SetDexAdmin: exec.Update(cim)
SetDexAdminUpdate(p) ==
    /\ At(p, "Set_update")
    /\ \E f \in {"none", "update"} :
        LET c == call[p]
            args == [op |-> c.op, ID |-> c.ID, isAdmin |-> c.isAdmin, m |-> c.m]
        IN  /\ f # "none" \/ ~Locked(p, c.ID)
            /\ IF f # "none"
               THEN Return(p, args @@ [err |-> ErrStorage, fault |-> TRUE])
               ELSE /\ Goto(p, "Set_commit", c)
                    /\ txn' = [txn EXCEPT ![p].writes =
                                  Append(@, [kind |-> "update", row |-> c.cim])]
    /\ UNCHANGED << connStore, clients, wiring, ncalls, created, adminSet >>

\* clientRepo.SetDexAdmin: tx.Commit()
SetDexAdminCommit(p) ==
    /\ At(p, "Set_commit")
    /\ \E f \in {"none", "commit"} :
        LET c == call[p]
            args == [op |-> c.op, ID |-> c.ID, isAdmin |-> c.isAdmin, m |-> c.m]
        IN  /\ IF f # "none"
               THEN /\ Return(p, args @@ [err |-> ErrStorage, fault |-> TRUE])
                    /\ UNCHANGED << clients, adminSet >>
               ELSE /\ clients' = ApplyWrites(clients, txn[p].writes)
                    /\ adminSet' = [adminSet EXCEPT ![c.ID] = {c.isAdmin}]
                    /\ Return(p, args @@ [err |-> NoErr, fault |-> FALSE])
    /\ UNCHANGED << connStore, wiring, ncalls, created >>

\* The creations of a committed batch that carry the given id.
RECURSIVE BatchCreations(_, _, _)
BatchCreations(cs, ws, id) ==
    IF Len(cs) = 0 \/ Len(ws) = 0 THEN << >>
    ELSE (IF cs[1].ID = id
          THEN << [via |-> "Batch", Secret |-> cs[1].Secret,
                   given |-> cs[1].Secret, row |-> ws[1].row,
                   Metadata |-> cs[1].Metadata, Admin |-> cs[1].Admin] >>
          ELSE << >>)
         \o BatchCreations(Tail(cs), Tail(ws), id)

\* NewClientRepoFromClients: repo.begin().  The loop reads one client of the
\* slice per round; the model draws each client, and the end of the slice,
\* when the loop reaches it.
BatchBegin(p) ==
    /\ CanCall(p)
    /\ \E f \in {"none", "begin"} :
        LET args == [op |-> "Batch", clients |-> << >>]
        IN  /\ IF f # "none"
               THEN Return(p, args @@ [err |-> ErrStorage, fault |-> TRUE])
               ELSE /\ Goto(p, "Batch_loop", args)
                    /\ txn' = [txn EXCEPT ![p] = [open |-> TRUE, writes |-> << >>]]
    /\ ncalls' = ncalls + 1
    /\ UNCHANGED << connStore, clients, wiring, created, adminSet >>

\* Variant: the insert goes through an executor without the transaction.
BatchItem_autocommit(p) ==
    /\ At(p, "Batch_loop")
    /\ Len(call[p].clients) < MaxBatch
    /\ \E c \in BatchClients, f \in {"none", "bcrypt", "insert"} :
        LET m == newClientModel(c, f = "bcrypt")
            err == IF f = "insert" THEN ErrStorage ELSE InsertErr(clients, m.cim)
            seen == [call[p] EXCEPT !.clients = Append(@, c)]
        IN  /\ IF c.Secret = << >>
               THEN /\ f = "none"
                    /\ Return(p, seen @@ [err |-> ErrNoSecret, fault |-> FALSE])
                    /\ UNCHANGED clients
               ELSE IF m.err # NoErr
               THEN /\ f # "insert"
                    /\ Return(p, seen @@ [err |-> m.err, fault |-> f # "none"])
                    /\ UNCHANGED clients
               ELSE /\ f = "insert" \/ ~Locked(p, c.ID)
                    /\ IF err # NoErr
                       THEN /\ Return(p, seen @@ [err |-> err, fault |-> f # "none"])
                            /\ UNCHANGED clients
                       ELSE /\ Goto(p, "Batch_loop", seen)
                            /\ clients' = clients \cup {m.cim}
                            /\ UNCHANGED txn
    /\ UNCHANGED << connStore, wiring, ncalls, created, adminSet >>

\* NewClientRepoFromClients: one round of the loop over clients.
BatchItem(p) ==
    /\ At(p, "Batch_loop")
    /\ Len(call[p].clients) < MaxBatch
    /\ \E c \in BatchClients, f \in {"none", "bcrypt", "insert"} :
        LET m == newClientModel(c, f = "bcrypt")
            err == IF f = "insert" THEN ErrStorage ELSE InsertErr(View(p), m.cim)
            seen == [call[p] EXCEPT !.clients = Append(@, c)]
        IN  /\ IF c.Secret = << >>
               THEN /\ f = "none"
                    /\ Return(p, seen @@ [err |-> ErrNoSecret, fault |-> FALSE])
               ELSE IF m.err # NoErr
               THEN /\ f # "insert"
                    /\ Return(p, seen @@ [err |-> m.err, fault |-> f # "none"])
               ELSE /\ f = "insert" \/ ~Locked(p, c.ID)
                    /\ IF err # NoErr
                       THEN Return(p, seen @@ [err |-> err, fault |-> f # "none"])
                       ELSE /\ Goto(p, "Batch_loop", seen)
                            /\ txn' = [txn EXCEPT ![p].writes =
                                          Append(@, [kind |-> "insert", row |-> m.cim])]
    /\ UNCHANGED << connStore, clients, wiring, ncalls, created, adminSet >>

\* NewClientRepoFromClients: tx.Commit()
BatchCommit(p) ==
    /\ At(p, "Batch_loop")
    /\ \E f \in {"none", "commit"} :
        /\ IF f # "none"
           THEN /\ Return(p, call[p] @@ [err |-> ErrStorage, fault |-> TRUE])
                /\ UNCHANGED << clients, created >>
           ELSE /\ clients' = ApplyWrites(clients, txn[p].writes)
                /\ created' = [id \in ClientIDs |->
                      created[id] \o BatchCreations(call[p].clients, txn[p].writes, id)]
                /\ Return(p, call[p] @@ [err |-> NoErr, fault |-> FALSE])
    /\ UNCHANGED << connStore, wiring, ncalls, adminSet >>

\* clientModel.Client: the id, the flag, and the metadata document read
\* back from its text; the secret is not part of it.
Client(m) ==
    LET doc == Unmarshal(m.Metadata)
    IN  IF doc.err # NoErr THEN [err |-> doc.err, ci |-> {}]
        ELSE [err |-> NoErr,
              ci |-> {[ID |-> m.ID, Metadata |-> doc.doc, Admin |-> m.DexAdmin]}]

\* Variant: the metadata text is handed back as the document.
clientRepoGet_raw(m, err) ==
    IF m = {} THEN [err |-> ErrorNotFound, ci |-> {}]
    ELSE IF err # NoErr THEN [err |-> err, ci |-> {}]
    ELSE [err |-> NoErr,
          ci |-> {[ID |-> r.ID, Metadata |-> r.Metadata, Admin |-> r.DexAdmin] :
                     r \in m}]

\* clientRepo.Get after the lookup returned (m, err): no row is not found.
clientRepoGet(m, err) ==
    IF m = {} THEN [err |-> ErrorNotFound, ci |-> {}]
    ELSE IF err # NoErr THEN [err |-> err, ci |-> {}]
    ELSE Client(CHOOSE r \in m : TRUE)

GetCall(p) ==
    /\ CanRead(p)
    /\ \E id \in ClientIDs, f \in {"none", "get"} :
        LET m == IF f # "none" THEN {} ELSE Get(clients, id)
            err == IF f # "none" THEN ErrStorage ELSE NoErr
        IN  Return(p, [op |-> "Get", ID |-> id, m |-> m, fault |-> f # "none",
                       known |-> created[id], set |-> adminSet[id]]
                      @@ clientRepoGet(m, err))
    /\ UNCHANGED << connStore, clients, wiring, ncalls, created, adminSet >>

\* clientRepo.All after the select returned (rows, err): the clients of all
\* rows, or the first error.
All(rows, err) ==
    IF err # NoErr THEN [err |-> err, cs |-> {}]
    ELSE IF \E m \in rows : Client(m).err # NoErr
    THEN [err |-> Client(CHOOSE m \in rows : Client(m).err # NoErr).err,
          cs |-> {}]
    ELSE [err |-> NoErr, cs |-> UNION {Client(m).ci : m \in rows}]

AllCall(p) ==
    /\ CanRead(p)
    /\ \E f \in {"none", "select"} :
        LET rows == IF f # "none" THEN {} ELSE clients
            err == IF f # "none" THEN ErrStorage ELSE NoErr
        IN  Return(p, [op |-> "All", rows |-> rows, fault |-> f # "none",
                       known |-> created, set |-> adminSet]
                      @@ All(rows, err))
    /\ UNCHANGED << connStore, clients, wiring, ncalls, created, adminSet >>

\* ---------------------------------------------------- connector_config
\* connector.NewConnectorConfigFromType: an empty config of the type, or
\* the unknown-type error.
NewConnectorConfigFromType(t) ==
    IF t \in ConnectorTypes THEN NoErr ELSE ErrUnknownType

newConnectorConfigModel(cfg) ==
    [ID |-> cfg.ID, Type |-> cfg.Type, Config |-> Marshal(<< cfg.ID >>)]

\* connectorConfigModel.ConnectorConfig: the config comes from the type's
\* constructor and the stored document.
ConnectorConfig(m) ==
    LET doc == Unmarshal(m.Config)
    IN  IF NewConnectorConfigFromType(m.Type) # NoErr
        THEN [err |-> NewConnectorConfigFromType(m.Type), cfg |-> {}]
        ELSE IF doc.err # NoErr THEN [err |-> doc.err, cfg |-> {}]
        ELSE [err |-> NoErr, cfg |-> {[ID |-> doc.doc[1], Type |-> m.Type]}]

\* The rows of a slice of configs.
ModelsOf(cfgs) == {newConnectorConfigModel(cfgs[i]) : i \in 1..Len(cfgs)}

\* What the executor of caller p reads of connector_config.
ConnView(p) ==
    IF txn[p].open THEN ApplyWrites(connectors, txn[p].writes) ELSE connectors

\* tx.Insert(insert...): the rows go in one by one; the first that fails
\* ends the statement.
RECURSIVE InsertAllErr(_, _)
InsertAllErr(table, ms) ==
    IF Len(ms) = 0 THEN NoErr
    ELSE IF InsertErr(table, ms[1]) # NoErr THEN InsertErr(table, ms[1])
    ELSE InsertAllErr(table \cup {ms[1]}, Tail(ms))

\* NewConnectorConfigRepo(dbm): the repository works once the DbMap is there.
CanReadConnectors(p) ==
    /\ ret = NoCall
    /\ driver # ""
    /\ pc[p] = "idle"
    /\ \A q \in Procs : q < p => pc[q] # "idle"

\* The callers that are inside Set.
InSet(p) == {q \in Procs \ {p} : call[q].op = "Set"}

\* The callers whose Set has deleted the rows and has not returned.
PastDelete == {q \in Procs : pc[q] \in {"CSet_insert", "CSet_commit"}}

\* ConnectorConfigRepo.Set up to the delete: the models are built, and the
\* transaction begins.  The configs are drawn where they are first used, at
\* the insert.  raced notes that another Set was under way at some point of
\* this call.
SetBegin(p) ==
    /\ CanReadConnectors(p)
    /\ ncalls < MaxCalls
    /\ \E f \in {"none", "marshal", "begin"} :
        LET others == InSet(p)
            args == [op |-> "Set", raced |-> others # {}]
        IN  IF f # "none"
            THEN Return(p, args @@
                    [err |-> IF f = "marshal" THEN ErrMarshal ELSE ErrStorage,
                     fault |-> TRUE, cfgs |-> << >>])
            ELSE /\ pc' = [pc EXCEPT ![p] = "CSet_delete"]
                 /\ call' = [q \in Procs |->
                       IF q = p THEN args
                       ELSE IF q \in others THEN [call[q] EXCEPT !.raced = TRUE]
                       ELSE call[q]]
                 /\ ret' = NoCall
                 /\ txn' = [txn EXCEPT ![p] = [open |-> TRUE, writes |-> << >>]]
    /\ ncalls' = ncalls + 1
    /\ UNCHANGED << connStore, clients, wiring, created, adminSet >>

\* Variant: nothing is deleted.
SetDelete_none(p) ==
    /\ At(p, "CSet_delete")
    /\ \E f \in {"none", "delete"} :
        /\ IF f # "none"
           THEN Return(p, call[p] @@
                    [err |-> ErrStorage, fault |-> TRUE, cfgs |-> << >>])
           ELSE /\ Goto(p, "CSet_insert", call[p])
                /\ txn' = [txn EXCEPT ![p].writes =
                              Append(@, [kind |-> "delete", rows |-> {}])]
    /\ UNCHANGED << connStore, clients, wiring, ncalls, created, adminSet >>

\* Variant: the delete goes to the DbMap, outside the transaction.
SetDelete_autocommit(p) ==
    /\ At(p, "CSet_delete")
    /\ \E f \in {"none", "delete"} :
        /\ f # "none" \/ \A r \in connectors : ~Locked(p, r.ID)
        /\ IF f # "none"
           THEN /\ Return(p, call[p] @@
                        [err |-> ErrStorage, fault |-> TRUE, cfgs |-> << >>])
                /\ UNCHANGED connectors
           ELSE /\ Goto(p, "CSet_insert", call[p])
                /\ connectors' = {}
                /\ txn' = [txn EXCEPT ![p].writes =
                              Append(@, [kind |-> "delete", rows |-> {}])]
    /\ UNCHANGED << lastSet, clients, wiring, ncalls, created, adminSet >>

\* ConnectorConfigRepo.Set: DELETE FROM connector_config, in the transaction.
SetDelete(p) ==
    /\ At(p, "CSet_delete")
    /\ \E f \in {"none", "delete"} :
        /\ f # "none" \/ \A r \in ConnView(p) : ~Locked(p, r.ID)
        /\ IF f # "none"
           THEN Return(p, call[p] @@
                    [err |-> ErrStorage, fault |-> TRUE, cfgs |-> << >>])
           ELSE /\ Goto(p, "CSet_insert", call[p])
                /\ txn' = [txn EXCEPT ![p].writes =
                              Append(@, [kind |-> "delete", rows |-> ConnView(p)])]
    /\ UNCHANGED << connStore, clients, wiring, ncalls, created, adminSet >>

\* ConnectorConfigRepo.Set: tx.Insert of the models of every config.
SetInsert(p) ==
    /\ At(p, "CSet_insert")
    /\ \E cfgs \in ConfigLists, f \in {"none", "insert"} :
        LET insert == [i \in 1..Len(cfgs) |-> newConnectorConfigModel(cfgs[i])]
            err == IF f # "none" THEN ErrStorage
                   ELSE InsertAllErr(ConnView(p), insert)
            seen == call[p] @@ [cfgs |-> cfgs]
        IN  /\ f # "none" \/ \A i \in 1..Len(cfgs) : ~Locked(p, cfgs[i].ID)
            /\ IF err # NoErr
               THEN Return(p, seen @@ [err |-> ErrInsertFailed, fault |-> f # "none"])
               ELSE /\ Goto(p, "CSet_commit", seen)
                    /\ txn' = [txn EXCEPT ![p].writes =
                          @ \o [i \in 1..Len(insert) |->
                                   [kind |-> "insert", row |-> insert[i]]]]
    /\ UNCHANGED << connStore, clients, wiring, ncalls, created, adminSet >>

\* ConnectorConfigRepo.Set: return tx.Commit()
SetCommit(p) ==
    /\ At(p, "CSet_commit")
    /\ \E f \in {"none", "commit"} :
        IF f # "none"
        THEN /\ Return(p, call[p] @@ [err |-> ErrStorage, fault |-> TRUE])
             /\ UNCHANGED connStore
        ELSE /\ connectors' = ApplyWrites(connectors, txn[p].writes)
             /\ lastSet' = [committed |-> TRUE,
                            models |-> ModelsOf(call[p].cfgs),
                            raced |-> call[p].raced,
                            replaced |-> txn[p].writes[1].rows
                                            \ ModelsOf(call[p].cfgs) # {}]
             /\ Return(p, call[p] @@ [err |-> NoErr, fault |-> FALSE])
    /\ UNCHANGED << clients, wiring, ncalls, created, adminSet >>

\* Variant: the rows whose config cannot be built are left out.
ConnectorAll_skip(rows, err) ==
    IF err # NoErr THEN [err |-> err, cfgs |-> {}]
    ELSE [err |-> NoErr,
          cfgs |-> UNION {ConnectorConfig(m).cfg : m \in rows}]

\* ConnectorConfigRepo.All after the select returned (rows, err).
ConnectorAll(rows, err) ==
    IF err # NoErr THEN [err |-> err, cfgs |-> {}]
    ELSE IF \E m \in rows : ConnectorConfig(m).err # NoErr
    THEN [err |-> ConnectorConfig(CHOOSE m \in rows :
                                     ConnectorConfig(m).err # NoErr).err,
          cfgs |-> {}]
    ELSE [err |-> NoErr,
          cfgs |-> UNION {ConnectorConfig(m).cfg : m \in rows}]

\* Variant: the select also sees the statements of a transaction that is
\* still open.
ConnectorAllCall_dirty(p) ==
    /\ CanReadConnectors(p)
    /\ \E f \in {"none", "select"}, q \in Procs :
        LET rows == IF f # "none" THEN {} ELSE ConnView(q)
            err == IF f # "none" THEN ErrStorage ELSE NoErr
        IN  Return(p, [op |-> "ConnectorAll", rows |-> rows, fault |-> f # "none",
                       last |-> lastSet, during |-> PastDelete # {}]
                      @@ ConnectorAll(rows, err))
    /\ UNCHANGED << connStore, clients, wiring, ncalls, created, adminSet >>

ConnectorAllCall(p) ==
    /\ CanReadConnectors(p)
    /\ \E f \in {"none", "select"} :
        LET rows == IF f # "none" THEN {} ELSE connectors
            err == IF f # "none" THEN ErrStorage ELSE NoErr
        IN  Return(p, [op |-> "ConnectorAll", rows |-> rows, fault |-> f # "none",
                       last |-> lastSet, during |-> PastDelete # {}]
                      @@ ConnectorAll(rows, err))
    /\ UNCHANGED << connStore, clients, wiring, ncalls, created, adminSet >>

\* ConnectorConfigRepo.GetConnectorByID after SelectOne returned (rows, err);
\* no row is sql.ErrNoRows.
GetConnectorByID(rows, err) ==
    IF err # NoErr THEN [err |-> err, cfgs |-> {}]
    ELSE IF rows = {} THEN [err |-> ErrConnectorNotFound, cfgs |-> {}]
    ELSE [err |-> ConnectorConfig(CHOOSE m \in rows : TRUE).err,
          cfgs |-> ConnectorConfig(CHOOSE m \in rows : TRUE).cfg]

GetConnectorByIDCall(p) ==
    /\ CanReadConnectors(p)
    /\ \E id \in ConnectorIDs, f \in {"none", "select"} :
        LET rows == IF f # "none" THEN {} ELSE Get(connectors, id)
            err == IF f # "none" THEN ErrStorage ELSE NoErr
        IN  Return(p, [op |-> "GetConnectorByID", ID |-> id, rows |-> rows,
                       fault |-> f # "none", last |-> lastSet,
                       during |-> PastDelete # {}]
                      @@ GetConnectorByID(rows, err))
    /\ UNCHANGED << connStore, clients, wiring, ncalls, created, adminSet >>

\* ----------------------------------------------------------- specification
Init ==
    /\ clients = {}
    /\ txn = [p \in Procs |-> NoTx]
    /\ alreadyExistsCheckers = << >>
    /\ driver = ""
    /\ secretGenerator = ""
    /\ pc = [p \in Procs |-> "idle"]
    /\ call = [p \in Procs |-> NoCall]
    /\ ret = NoCall
    /\ ncalls = 0
    /\ created = [id \in ClientIDs |-> << >>]
    /\ adminSet = [id \in ClientIDs |-> {}]
    /\ connectors = {}
    /\ lastSet = NoSet

\* The caller takes the result of the call that returned.
Observe ==
    /\ ret # NoCall
    /\ ret' = NoCall
    /\ UNCHANGED << connStore, clients, txn, wiring, pc, call,
                    ncalls, created, adminSet >>

Next ==
    \/ \E c \in Registered \cup {Drivers[i] : i \in 1..Len(Drivers)} :
          registerAlreadyExistsChecker(c)
    \/ \E d \in Registered : NewConnection(d)
    \/ \E secGen \in SecretGenerators : NewClientRepoWithSecretGenerator(secGen)
    \/ \E p \in Procs : NewBegin(p)
    \/ \E p \in Procs : NewInsert(p)
    \/ \E p \in Procs : AuthenticateCall(p)
    \/ \E p \in Procs : IsDexAdminCall(p)
    \/ \E p \in Procs : SetDexAdminBegin(p)
    \/ \E p \in Procs : SetDexAdminGet(p)
    \/ \E p \in Procs : SetDexAdminUpdate(p)
    \/ \E p \in Procs : SetDexAdminCommit(p)
    \/ \E p \in Procs : BatchBegin(p)
    \/ \E p \in Procs : BatchItem(p)
    \/ \E p \in Procs : BatchCommit(p)
    \/ Observe

Spec == Init /\ [][Next]_vars

\* The client repository with the calls that create, change and list
\* clients.
NextStore ==
    \/ \E c \in Registered \cup {Drivers[i] : i \in 1..Len(Drivers)} :
          registerAlreadyExistsChecker(c)
    \/ \E d \in Registered : NewConnection(d)
    \/ \E secGen \in SecretGenerators : NewClientRepoWithSecretGenerator(secGen)
    \/ \E p \in Procs : NewBegin(p)
    \/ \E p \in Procs : NewInsert(p)
    \/ \E p \in Procs : GetCall(p)
    \/ \E p \in Procs : AllCall(p)
    \/ \E p \in Procs : SetDexAdminBegin(p)
    \/ \E p \in Procs : SetDexAdminGet(p)
    \/ \E p \in Procs : SetDexAdminUpdate(p)
    \/ \E p \in Procs : SetDexAdminCommit(p)
    \/ \E p \in Procs : BatchBegin(p)
    \/ \E p \in Procs : BatchItem(p)
    \/ \E p \in Procs : BatchCommit(p)
    \/ Observe

SpecStore == Init /\ [][NextStore]_vars

\* The connector config repository on its own.
NextConnectors ==
    \/ \E c \in Registered \cup {Drivers[i] : i \in 1..Len(Drivers)} :
          registerAlreadyExistsChecker(c)
    \/ \E d \in Registered : NewConnection(d)
    \/ \E p \in Procs : SetBegin(p)
    \/ \E p \in Procs : SetDelete(p)
    \/ \E p \in Procs : SetInsert(p)
    \/ \E p \in Procs : SetCommit(p)
    \/ \E p \in Procs : ConnectorAllCall(p)
    \/ \E p \in Procs : GetConnectorByIDCall(p)
    \/ Observe

SpecConnectors == Init /\ [][NextConnectors]_vars

\* The callers inside a call of the client repository, and inside Set.
InClientRepo == {q \in Procs : call[q].op \in {"Batch", "SetDexAdmin"}}
InConnectorRepo == {q \in Procs : call[q].op = "Set"}

\* The calls that begin a transaction of their own, on both repositories,
\* with the client repository of NewClientRepo.  The repositories share no
\* table and no transaction: a call of one starts while no call of the other
\* is under way.
NextTx ==
    \/ \E c \in Registered \cup {Drivers[i] : i \in 1..Len(Drivers)} :
          registerAlreadyExistsChecker(c)
    \/ \E d \in Registered : NewConnection(d)
    \/ NewClientRepoWithSecretGenerator("default")
    \/ \E p \in Procs : InConnectorRepo = {} /\ SetDexAdminBegin(p)
    \/ \E p \in Procs : SetDexAdminGet(p)
    \/ \E p \in Procs : SetDexAdminUpdate(p)
    \/ \E p \in Procs : SetDexAdminCommit(p)
    \/ \E p \in Procs : InConnectorRepo = {} /\ BatchBegin(p)
    \/ \E p \in Procs : BatchItem(p)
    \/ \E p \in Procs : BatchCommit(p)
    \/ \E p \in Procs : InClientRepo = {} /\ secretGenerator # "" /\ SetBegin(p)
    \/ \E p \in Procs : SetDelete(p)
    \/ \E p \in Procs : SetInsert(p)
    \/ \E p \in Procs : SetCommit(p)
    \/ Observe

SpecTx == Init /\ [][NextTx]_vars

TypeOK ==
    /\ \A r \in clients : r.ID \in ClientIDs
    /\ ncalls \in 0..MaxCalls
    /\ \A p \in Procs : pc[p] \in {"idle", "New_insert", "Set_get", "Set_update",
                                   "Set_commit", "Batch_loop", "CSet_delete",
                                   "CSet_insert", "CSet_commit"}
    /\ \A r \in connectors : r.ID \in ConnectorIDs

\* ------------------------------------------------------------------ claims
\* The bytes of a secret in its transport form.
Bytes(text) == DecodeString(text).bytes

\* The flag a stored client carries: the one it was created with until a
\* SetDexAdmin commits, then the one of the last SetDexAdmin committed.
FlagOf(creations, set) ==
    IF set = {} THEN creations[1].row.DexAdmin ELSE CHOOSE b \in set : TRUE

\* C1: credentials returned by a successful New for a client that carried no
\* secret authenticate: a later Authenticate with them returns (true, nil),
\* whatever the generator of the repository.
C1_IssuedCredentialsAuthenticate ==
    (/\ ret.op = "Authenticate"
     /\ ~ret.fault
     /\ \E i \in 1..Len(ret.known) :
            /\ ret.known[i].via = "New"
            /\ ret.known[i].given = << >>
            /\ ret.known[i].Secret = ret.Secret)
    => (ret.ok /\ ret.err = NoErr)

\* C2: New for an id that is already stored fails with the already-exists
\* error and no credentials, and the id keeps its one row with the hash, the
\* metadata and the flag it had.
C2_SecondCreateRejected ==
    (/\ ret.op = "New"
     /\ ~ret.fault
     /\ ret.before # {})
    => /\ ret.err = ErrAlreadyExists
       /\ ret.cc = {}
       /\ Get(clients, ret.cli.ID) = ret.before
       /\ Cardinality(ret.before) = 1
       /\ \A r \in ret.before :
            /\ r.Secret = created[r.ID][1].row.Secret
            /\ r.Metadata = created[r.ID][1].row.Metadata
            /\ r.DexAdmin = FlagOf(created[r.ID], adminSet[r.ID])

C2_Witness ==
    /\ ret.op = "New"
    /\ ~ret.fault
    /\ ret.before # {}
    /\ ret.err = ErrAlreadyExists
    /\ \E r \in ret.before :
          /\ r.Metadata # Marshal(ret.cli.Metadata)
          /\ r.Secret # ret.cim.Secret

\* C3: of the New calls that race for one id exactly one reports success;
\* each other one fails with the already-exists error, and the row stored is
\* the one of the call that succeeded.
C3_OneWinner ==
    /\ \A id \in ClientIDs : Len(created[id]) <= 1
    /\ (ret.op = "New" /\ ret.raced /\ ~ret.fault)
       => /\ Len(created[ret.cli.ID]) = 1
          /\ \A r \in Get(clients, ret.cli.ID) :
                /\ r.Secret = created[r.ID][1].row.Secret
                /\ r.Metadata = created[r.ID][1].row.Metadata
          /\ Cardinality(Get(clients, ret.cli.ID)) = 1
          /\ \/ /\ ret.err = NoErr
                /\ ret.cc = {[ID |-> ret.cli.ID, Secret |-> ret.cli.Secret]}
                /\ ret.before = {}
                /\ created[ret.cli.ID][1].row = ret.cim
             \/ /\ ret.err = ErrAlreadyExists
                /\ ret.cc = {}
                /\ ret.before = Get(clients, ret.cli.ID)

\* Both callers were inside New for the id; this one lost to the other New.
C3_Witness ==
    /\ ret.op = "New"
    /\ ret.raced
    /\ ret.err = ErrAlreadyExists
    /\ created[ret.cli.ID][1].via = "New"
    /\ created[ret.cli.ID][1].row # ret.cim

\* C4: for a stored client, Authenticate with a secret whose bytes differ
\* from those it was created with returns (false, nil); a prefix of the
\* secret is not accepted.
C4_WrongSecretRejected ==
    (/\ ret.op = "Authenticate"
     /\ ~ret.fault
     /\ ret.m # {}
     /\ Len(ret.known) = 1
     /\ \/ DecodeString(ret.Secret).err # NoErr
        \/ Bytes(ret.Secret) # Bytes(ret.known[1].Secret))
    => (~ret.ok /\ ret.err = NoErr)

\* C5: for a stored client, a presented secret of more than maxSecretLength
\* bytes gets (false, nil) without the hash comparison being reached.
C5_TooLongRejected ==
    (/\ ret.op = "Authenticate"
     /\ ~ret.fault
     /\ ret.m # {}
     /\ DecodeString(ret.Secret).err = NoErr
     /\ Len(Bytes(ret.Secret)) > maxSecretLength)
    => (~ret.ok /\ ret.err = NoErr /\ ~ret.compared)

\* The first maxSecretLength bytes presented are those of the stored hash.
C5_Witness ==
    /\ ret.op = "Authenticate"
    /\ ~ret.fault
    /\ Len(Bytes(ret.Secret)) > maxSecretLength
    /\ \E r \in ret.m : CompareHashAndPassword(r.Secret, Bytes(ret.Secret))
    /\ ~ret.ok

\* C6: Authenticate returns (false, nil) for an id that is not stored and
\* for a secret that does not decode; a wrong secret gets a nil error too.
C6_FailuresAreFalseNil ==
    (ret.op = "Authenticate" /\ ~ret.fault)
    => /\ ret.err = NoErr
       /\ (ret.m = {} \/ DecodeString(ret.Secret).err # NoErr) => ~ret.ok

C6_Witness ==
    /\ ret.op = "Authenticate"
    /\ ~ret.fault
    /\ ret.m # {}
    /\ DecodeString(ret.Secret).err # NoErr
    /\ ~ret.ok
    /\ ret.err = NoErr

\* C7: Authenticate returns true only if the row exists, the lookup did not
\* fail, the secret decoded to at most maxSecretLength bytes and the hash
\* comparison succeeded; with an error the boolean is false.
C7_TrueOnlyOnMatch ==
    ret.op = "Authenticate"
    => /\ ret.ok =>
            /\ ret.m # {}
            /\ ~ret.fault
            /\ ret.err = NoErr
            /\ DecodeString(ret.Secret).err = NoErr
            /\ Len(Bytes(ret.Secret)) <= maxSecretLength
            /\ \A r \in ret.m : CompareHashAndPassword(r.Secret, Bytes(ret.Secret))
       /\ ret.err # NoErr => ~ret.ok

C7_Witness ==
    /\ ret.op = "Authenticate"
    /\ ret.ok

\* C8: SetDexAdmin for an id that is not stored fails with the not-found
\* error and leaves every row as it was.
C8_SetAdminUnknownIdFails ==
    (/\ ret.op = "SetDexAdmin"
     /\ ~ret.fault
     /\ ret.m = {})
    => /\ ret.err = ErrorNotFound
       /\ clients = ret.rows

\* C9: IsDexAdmin of a stored id returns, with a nil error, the flag of the
\* last SetDexAdmin that returned nil for the id, and the flag the client was
\* created with when there was none.
C9_IsAdminFollowsSetAdmin ==
    (/\ ret.op = "IsDexAdmin"
     /\ ~ret.fault
     /\ ret.m # {})
    => /\ ret.err = NoErr
       /\ ret.ok = FlagOf(ret.known, ret.set)

C9_Witness ==
    /\ ret.op = "IsDexAdmin"
    /\ ~ret.fault
    /\ ret.m # {}
    /\ ret.set # {}
    /\ ret.ok # ret.known[1].row.DexAdmin

\* A step of NewClientRepoFromClients: it returns, or it goes on to its next
\* client.
BatchStep ==
    \/ ret'.op = "Batch"
    \/ /\ ret' = NoCall
       /\ \E p \in Procs : /\ pc[p] = "Batch_loop"
                           /\ pc'[p] = "Batch_loop"
                           /\ call'[p] # call[p]

\* C10: NewClientRepoFromClients is all or nothing: no step of it changes the
\* stored rows except the commit that lets it return nil, and that commit
\* stores every client of the batch.
C10_BatchAllOrNothing ==
    [][BatchStep =>
          IF ret'.op = "Batch" /\ ret'.err = NoErr
          THEN /\ \A k \in 1..Len(ret'.clients) :
                     \E r \in clients' :
                        /\ r.ID = ret'.clients[k].ID
                        /\ CompareHashAndPassword(r.Secret,
                                                  Bytes(ret'.clients[k].Secret))
                        /\ r \notin clients
               /\ \A r \in clients : r \in clients'
          ELSE clients' = clients]_vars

\* A batch failed at its second client, after the insert of the first: the
\* first is not stored.
C10_Witness ==
    /\ ret.op = "Batch"
    /\ ret.err # NoErr
    /\ Len(ret.clients) = 2
    /\ Get(clients, ret.clients[1].ID) = {}

\* The configs that rows stand for.
ConfigsOf(models) == {[ID |-> m.ID, Type |-> m.Type] : m \in models}

SharedID(cfgs) ==
    \E i, j \in 1..Len(cfgs) : i # j /\ cfgs[i].ID = cfgs[j].ID

\* C12: a Set that fails at a step (marshal, begin, delete, insert, commit,
\* or two configs with one id) returns an error, and the committed rows of
\* connector_config are what they were; they change only when a Set returns
\* nil.
C12_FailedSetKeepsRows ==
    [][/\ (ret'.op = "Set" /\ (ret'.fault \/ SharedID(ret'.cfgs)))
          => ret'.err # NoErr
       /\ (ret'.op = "Set" /\ ret'.err # NoErr) => connectors' = connectors
       /\ connectors' # connectors => (ret'.op = "Set" /\ ret'.err = NoErr)]_vars

\* The insert failed on two configs with one id, after the delete of a table
\* that held rows.
C12_Witness ==
    /\ ret.op = "Set"
    /\ ~ret.fault
    /\ SharedID(ret.cfgs)
    /\ ret.err = ErrInsertFailed
    /\ connectors # {}

\* C13: when a row read has a type without a constructor, All fails with the
\* unknown-type error and returns no config, and GetConnectorByID of such a
\* row fails with that error.
C13_UnknownTypeFailsWhole ==
    (/\ ret.op \in {"ConnectorAll", "GetConnectorByID"}
     /\ ~ret.fault
     /\ \E m \in ret.rows : m.Type \notin ConnectorTypes)
    => /\ ret.err = ErrUnknownType
       /\ ret.cfgs = {}

\* All read a row that resolves and a row that does not.
C13_Witness ==
    /\ ret.op = "ConnectorAll"
    /\ ~ret.fault
    /\ \E m \in ret.rows : m.Type \notin ConnectorTypes
    /\ \E m \in ret.rows : m.Type \in ConnectorTypes
    /\ ret.err = ErrUnknownType

\* C14: New for a client that carries a secret stores the hash of that
\* secret and returns it in the credentials.
C14_SuppliedSecretKept ==
    (/\ ret.op = "New"
     /\ ret.err = NoErr
     /\ ret.given # << >>)
    => /\ ret.cc = {[ID |-> ret.cli.ID, Secret |-> ret.given]}
       /\ CompareHashAndPassword(ret.cim.Secret, Bytes(ret.given))

\* C17: no creation succeeds with a secret of more than maxSecretLength
\* bytes: New and NewClientRepoFromClients reject it and store no row.
C17_LongSecretRejected ==
    \A id \in ClientIDs :
        \A i \in 1..Len(created[id]) :
            Len(Bytes(created[id][i].Secret)) <= maxSecretLength

C18_RowsAreKept ==
    [][\A r \in clients :
          /\ \E r2 \in clients' :
                /\ r2.ID = r.ID
                /\ r2.Secret = r.Secret
                /\ r2.Metadata = r.Metadata
                /\ r2.DexAdmin # r.DexAdmin
                   => /\ ret'.op = "SetDexAdmin"
                      /\ ret'.err = NoErr
                      /\ ret'.ID = r.ID
          /\ Cardinality(Get(clients', r.ID)) = 1]_vars

\* A SetDexAdmin changed the flag of a row, and the row has the hash and the
\* metadata of its creation.
C18_Witness ==
    /\ ret.op = "SetDexAdmin"
    /\ ret.err = NoErr
    /\ \E r \in clients :
          /\ r.ID = ret.ID
          /\ r.DexAdmin # created[r.ID][1].Admin
          /\ r.Secret = created[r.ID][1].row.Secret
          /\ r.Metadata = created[r.ID][1].row.Metadata

\* C16: the classifier is true for an error exactly when one of the checkers
\* registered so far matches it (so it is false for every error while none is
\* registered); a registration keeps the checkers already there, in their
\* order, and an error classified as already existing stays so.
ClassifiedErrors == {ErrStorage, ErrPgUnique, ErrSqliteUnique, ErrInsertFailed}

C16_ClassifierIsAnyRegistered ==
    /\ [](\A err \in ClassifiedErrors :
            isAlreadyExistsErr(err) <=> \E c \in Registered : Checker(c, err))
    /\ [][/\ Len(alreadyExistsCheckers') >= Len(alreadyExistsCheckers)
          /\ SubSeq(alreadyExistsCheckers', 1, Len(alreadyExistsCheckers))
                = alreadyExistsCheckers
          /\ \A err \in ClassifiedErrors :
                isAlreadyExistsErr(err) => isAlreadyExistsErr(err)']_vars

\* Two checkers are registered; the error of the first is still classified
\* and an error neither matches is not.
C16_Witness ==
    /\ Len(alreadyExistsCheckers) = 2
    /\ isAlreadyExistsErr(ErrPgUnique)
    /\ isAlreadyExistsErr(ErrSqliteUnique)
    /\ ~isAlreadyExistsErr(ErrStorage)

\* C19: an All or a GetConnectorByID that runs while a Set is between its
\* delete and its return reads the whole of what the last Set that returned
\* nil wrote (the empty table when there was none), for Sets that no other
\* Set overlapped: neither the emptied table nor rows of the Set under way.
C19_ReadsSeeWholeSets ==
    (/\ ret.op \in {"ConnectorAll", "GetConnectorByID"}
     /\ ~ret.fault
     /\ ret.during
     /\ ~ret.last.raced)
    => IF ret.op = "ConnectorAll"
       THEN ret.rows = ret.last.models
       ELSE ret.rows = Get(ret.last.models, ret.ID)

\* The table held rows when the Set under way deleted, and All read them.
C19_Witness ==
    /\ ret.op = "ConnectorAll"
    /\ ~ret.fault
    /\ ret.during
    /\ ret.last.committed
    /\ ~ret.last.raced
    /\ ret.rows # {}
    /\ ret.err = NoErr

\* The calls that begin a transaction of their own.
TxOps == {"Batch", "SetDexAdmin", "Set"}

\* C20: a caller that is in none of NewClientRepoFromClients, SetDexAdmin and
\* Set has no transaction open; when one of them returns an error, or
\* SetDexAdmin returns for an id without a row, the committed rows of both
\* tables are what they were before the step; committed rows change only on
\* the step where one of them returns nil.
C20_TransactionsEnd ==
    /\ [](\A p \in Procs : pc[p] = "idle" => txn[p] = NoTx)
    /\ [][/\ (ret'.op \in TxOps /\ ret'.err # NoErr)
             => (clients' = clients /\ connectors' = connectors)
          /\ (ret'.op = "SetDexAdmin" /\ ret'.m = {})
             => (clients' = clients /\ connectors' = connectors)
          /\ (clients' # clients \/ connectors' # connectors)
             => (ret'.op \in TxOps /\ ret'.err = NoErr)]_vars

\* A SetDexAdmin that had read the row returned an error; the row has the
\* other flag and every caller is out of its transaction.
C20_Witness ==
    /\ ret.op = "SetDexAdmin"
    /\ ret.fault
    /\ ret.m # {}
    /\ ret.err # NoErr
    /\ \E r \in clients : r.ID = ret.ID /\ r.DexAdmin # ret.isAdmin
    /\ \A p \in Procs : pc[p] = "idle" /\ txn[p] = NoTx

====
